---------------------------- MODULE Spec2Model ----------------------------
(***************************************************************************)
(* Model of bincode's error taxonomy (src/error.rs) and of its compile-time *)
(* byte-order configuration (src/config/endian.rs).                         *)
(*                                                                          *)
(* Texts are TLA+ strings; TLC evaluates \o, Len and SubSeq on them.        *)
(* An ErrorKind value is a record of one shape for all nine variants: the   *)
(* field `kind` is the variant, and the payload field the variant carries   *)
(* is set, the others hold their neutral value.                             *)
(***************************************************************************)
EXTENDS FiniteSets, Integers, Sequences, TLC

VARIABLES
    err,          \* the live Error (Box<ErrorKind>), or NoError
    origin,       \* how err was constructed and from which input
    constructed,  \* the ErrorKind err was constructed with
    rendered,     \* text of the latest Display rendering of err
    firstRendered,\* text of the first Display rendering of err
    renders,      \* number of Display renderings of err so far
    desc,         \* result of the latest description() call on err
    prevDesc,     \* variant and description() of the previous error described
    causeRes,     \* result of the latest cause() call on err
    layers,       \* Result-returning layers err has been returned through
    host,         \* cfg(target_endian) of the build: "little" or "big"
    resolved,     \* marker -> strategy the marker's Endian last resolved to
    firstResolved,\* marker -> strategy the marker's Endian first resolved to
    resolutions,  \* marker -> number of times the marker's Endian was resolved
    input,        \* the integer being encoded: [width, value]
    wire,         \* marker -> bytes written for input with the marker's strategy
    back          \* marker -> value read back from wire[marker]

errVars == <<err, origin, constructed, rendered, firstRendered, renders,
             desc, prevDesc, causeRes, layers>>
endianVars == <<host, resolved, firstResolved, resolutions, input, wire, back>>
vars == <<err, origin, constructed, rendered, firstRendered, renders,
          desc, prevDesc, causeRes, layers,
          host, resolved, firstResolved, resolutions, input, wire, back>>

---------------------------------------------------------------------------
(* Bounds of the model *)

MaxTag == 11
MaxValidUpTo == 1
MaxRenders == 2
MaxLayers == 2
MaxResolutions == 2
MaxSamples == 5
SampleStep == 4660

(* Program constants *)

U8Max == 255
Utf8MaxErrorLen == 3

---------------------------------------------------------------------------
(* Text helpers *)

Digit(d) == SubSeq("0123456789", d + 1, d + 1)

RECURSIVE Dec(_)
\* `{}` of an unsigned integer: decimal, most significant digit first,
\* no leading zeros, no sign.
Dec(n) == IF n < 10 THEN Digit(n) ELSE Dec(n \div 10) \o Digit(n % 10)

IsPrefix(p, s) == Len(p) <= Len(s) /\ SubSeq(s, 1, Len(p)) = p

---------------------------------------------------------------------------
(* Payload types *)

\* io::Error: either a bare kind or a kind with a static message.
NoIo == [kind |-> "", repr |-> "", error |-> ""]
IoErrors ==
    { [kind |-> "UnexpectedEof", repr |-> "Simple", error |-> ""],
      [kind |-> "WriteZero", repr |-> "Simple", error |-> ""],
      [kind |-> "UnexpectedEof", repr |-> "Custom", error |-> "failed to fill whole buffer"],
      [kind |-> "Other", repr |-> "Custom", error |-> "disk gone"] }

IoKindAsStr(k) ==
    CASE k = "UnexpectedEof" -> "unexpected end of file"
      [] k = "WriteZero" -> "write zero"
      [] OTHER -> "other os error"

\* `{}` of an io::Error
IoDisplay(e) == IF e.repr = "Custom" THEN e.error ELSE IoKindAsStr(e.kind)

\* Utf8Error: error_len = 0 stands for None, 1..3 for Some(n)
NoUtf8 == [valid_up_to |-> 0, error_len |-> 0]
Utf8Errors == [valid_up_to : 0..MaxValidUpTo, error_len : 0..Utf8MaxErrorLen]

\* `{}` of a Utf8Error
Utf8Display(e) ==
    IF e.error_len # 0
    THEN "invalid utf-8 sequence of " \o Dec(e.error_len)
         \o " bytes from index " \o Dec(e.valid_up_to)
    ELSE "incomplete utf-8 byte sequence from index " \o Dec(e.valid_up_to)

\* T: fmt::Display, the argument of custom(): a string or an unsigned integer
NoMsg == [type |-> "", s |-> "", n |-> 0]
StrMsg(s) == [type |-> "str", s |-> s, n |-> 0]
U8Msg(n) == [type |-> "u8", s |-> "", n |-> n]
Messages ==
    { StrMsg(""), StrMsg("x"), StrMsg("42"), StrMsg("io error"),
      StrMsg("sequence must have length"), U8Msg(42), U8Msg(7) }

\* T::to_string(): what `{}` writes for the value
to_string(m) == IF m.type = "str" THEN m.s ELSE Dec(m.n)

---------------------------------------------------------------------------
(* ErrorKind *)

Kinds ==
    { "Io", "InvalidUtf8Encoding", "InvalidBoolEncoding", "InvalidCharEncoding",
      "InvalidTagEncoding", "DeserializeAnyNotSupported", "SizeLimit",
      "SequenceMustHaveLength", "Custom" }

Variant(k) == [kind |-> k, io |-> NoIo, utf8 |-> NoUtf8, n |-> 0, msg |-> ""]

NoError == Variant("None")
Io(e) == [Variant("Io") EXCEPT !.io = e]
InvalidUtf8Encoding(e) == [Variant("InvalidUtf8Encoding") EXCEPT !.utf8 = e]
InvalidBoolEncoding(b) == [Variant("InvalidBoolEncoding") EXCEPT !.n = b]
InvalidCharEncoding == Variant("InvalidCharEncoding")
InvalidTagEncoding(t) == [Variant("InvalidTagEncoding") EXCEPT !.n = t]
DeserializeAnyNotSupported == Variant("DeserializeAnyNotSupported")
SizeLimit == Variant("SizeLimit")
SequenceMustHaveLength == Variant("SequenceMustHaveLength")
Custom(s) == [Variant("Custom") EXCEPT !.msg = s]

ErrorKinds ==
    { Io(e) : e \in IoErrors }
    \cup { InvalidUtf8Encoding(e) : e \in Utf8Errors }
    \cup { InvalidBoolEncoding(b) : b \in 0..U8Max }
    \cup { InvalidTagEncoding(t) : t \in 0..MaxTag }
    \cup { InvalidCharEncoding, DeserializeAnyNotSupported, SizeLimit,
           SequenceMustHaveLength }
    \cup { Custom(to_string(m)) : m \in Messages }

\* description() that appends the payload of an Io error
description_payload(e) ==
    CASE e.kind = "Io" -> "io error: " \o IoDisplay(e.io)
      [] e.kind = "InvalidUtf8Encoding" -> "string is not valid utf8"
      [] e.kind = "InvalidBoolEncoding" -> "invalid u8 while decoding bool"
      [] e.kind = "InvalidCharEncoding" -> "char is not valid"
      [] e.kind = "InvalidTagEncoding" -> "tag for enum is not valid"
      [] e.kind = "SequenceMustHaveLength" ->
            "Bincode can only encode sequences and maps that have a knowable size ahead of time"
      [] e.kind = "DeserializeAnyNotSupported" ->
            "Bincode doesn't support serde::Deserializer::deserialize_any"
      [] e.kind = "SizeLimit" -> "the size limit has been reached"
      [] e.kind = "Custom" -> e.msg

\* description() with the wording of Display for SequenceMustHaveLength
description_reworded(e) ==
    CASE e.kind = "Io" -> "io error"
      [] e.kind = "InvalidUtf8Encoding" -> "string is not valid utf8"
      [] e.kind = "InvalidBoolEncoding" -> "invalid u8 while decoding bool"
      [] e.kind = "InvalidCharEncoding" -> "char is not valid"
      [] e.kind = "InvalidTagEncoding" -> "tag for enum is not valid"
      [] e.kind = "SequenceMustHaveLength" -> "sequence must have length"
      [] e.kind = "DeserializeAnyNotSupported" ->
            "Bincode doesn't support serde::Deserializer::deserialize_any"
      [] e.kind = "SizeLimit" -> "the size limit has been reached"
      [] e.kind = "Custom" -> e.msg

\* StdError::description
description(e) ==
    CASE e.kind = "Io" -> "io error"
      [] e.kind = "InvalidUtf8Encoding" -> "string is not valid utf8"
      [] e.kind = "InvalidBoolEncoding" -> "invalid u8 while decoding bool"
      [] e.kind = "InvalidCharEncoding" -> "char is not valid"
      [] e.kind = "InvalidTagEncoding" -> "tag for enum is not valid"
      [] e.kind = "SequenceMustHaveLength" ->
            "Bincode can only encode sequences and maps that have a knowable size ahead of time"
      [] e.kind = "DeserializeAnyNotSupported" ->
            "Bincode doesn't support serde::Deserializer::deserialize_any"
      [] e.kind = "SizeLimit" -> "the size limit has been reached"
      [] e.kind = "Custom" -> e.msg

\* cause() that exposes the io::Error an Io variant wraps
cause_chained(e) == IF e.kind = "Io" THEN "Some" ELSE "None"

\* StdError::cause: "None" or "Some"
cause(e) ==
    CASE e.kind = "Io" -> "None"
      [] e.kind = "InvalidUtf8Encoding" -> "None"
      [] e.kind = "InvalidBoolEncoding" -> "None"
      [] e.kind = "InvalidCharEncoding" -> "None"
      [] e.kind = "InvalidTagEncoding" -> "None"
      [] e.kind = "SequenceMustHaveLength" -> "None"
      [] e.kind = "DeserializeAnyNotSupported" -> "None"
      [] e.kind = "SizeLimit" -> "None"
      [] e.kind = "Custom" -> "None"

\* Display that writes description(), dropping the payload
Display_description(e) ==
    CASE e.kind = "Io" -> "io error"
      [] e.kind = "InvalidUtf8Encoding" -> "string is not valid utf8"
      [] e.kind = "InvalidBoolEncoding" -> "invalid u8 while decoding bool"
      [] e.kind = "InvalidCharEncoding" -> "char is not valid"
      [] e.kind = "InvalidTagEncoding" -> "tag for enum is not valid"
      [] e.kind = "SequenceMustHaveLength" ->
            "Bincode can only encode sequences and maps that have a knowable size ahead of time"
      [] e.kind = "DeserializeAnyNotSupported" ->
            "Bincode doesn't support serde::Deserializer::deserialize_any"
      [] e.kind = "SizeLimit" -> "the size limit has been reached"
      [] e.kind = "Custom" -> e.msg

\* fmt::Display::fmt
Display(e) ==
    CASE e.kind = "Io" -> "io error: " \o IoDisplay(e.io)
      [] e.kind = "InvalidUtf8Encoding" ->
            "string is not valid utf8: " \o Utf8Display(e.utf8)
      [] e.kind = "InvalidBoolEncoding" ->
            "invalid u8 while decoding bool, expected 0 or 1, found " \o Dec(e.n)
      [] e.kind = "InvalidCharEncoding" -> "char is not valid"
      [] e.kind = "InvalidTagEncoding" -> "tag for enum is not valid: " \o Dec(e.n)
      [] e.kind = "SequenceMustHaveLength" -> "sequence must have length"
      [] e.kind = "SizeLimit" -> "the size limit has been reached"
      [] e.kind = "DeserializeAnyNotSupported" ->
            "Bincode does not support the serde::Deserializer::deserialize_any method"
      [] e.kind = "Custom" -> e.msg

\* from() that keeps only the text of the io::Error
from_stringified(e) == [Variant("Custom") EXCEPT !.msg = IoDisplay(e)]

\* From<io::Error> for Error
from(e) == Io(e)

\* custom() that formats its argument with {:?}: a string comes out quoted
de_custom_debug(m) ==
    [Variant("Custom") EXCEPT
        !.msg = IF m.type = "str" THEN "\"" \o m.s \o "\"" ELSE Dec(m.n)]

\* serde::de::Error::custom
de_custom(m) == Custom(to_string(m))

\* serde::ser::Error::custom
ser_custom(m) == Custom(to_string(m))

---------------------------------------------------------------------------
(* Byte-order configuration *)

Markers == { "LittleEndian", "BigEndian", "NativeEndian" }

\* crate::byteorder: the strategy types, three distinct types
Strategies ==
    { "byteorder::LittleEndian", "byteorder::BigEndian", "byteorder::NativeEndian" }

\* Endian with NativeEndian naming the strategy type of the host's order
Endian_alias(m) ==
    CASE m = "LittleEndian" -> "byteorder::LittleEndian"
      [] m = "BigEndian" -> "byteorder::BigEndian"
      [] m = "NativeEndian" ->
            IF host = "little" THEN "byteorder::LittleEndian" ELSE "byteorder::BigEndian"

\* Endian with the strategies of LittleEndian and BigEndian exchanged
Endian_swapped(m) ==
    CASE m = "LittleEndian" -> "byteorder::BigEndian"
      [] m = "BigEndian" -> "byteorder::LittleEndian"
      [] m = "NativeEndian" -> "byteorder::NativeEndian"

\* Endian with the impl for BigEndian copied from the one for LittleEndian
Endian_copied(m) ==
    CASE m = "LittleEndian" -> "byteorder::LittleEndian"
      [] m = "BigEndian" -> "byteorder::LittleEndian"
      [] m = "NativeEndian" -> "byteorder::NativeEndian"

\* <M as BincodeByteOrder>::Endian: the strategy type the impl for marker m names
Endian(m) ==
    CASE m = "LittleEndian" -> "byteorder::LittleEndian"
      [] m = "BigEndian" -> "byteorder::BigEndian"
      [] m = "NativeEndian" -> "byteorder::NativeEndian"

\* crate::byteorder: the byte order each strategy type reads and writes in,
\* on a build whose target_endian is h
OrderOf(s, h) ==
    CASE s = "byteorder::LittleEndian" -> "little"
      [] s = "byteorder::BigEndian" -> "big"
      [] s = "byteorder::NativeEndian" -> h

RECURSIVE Pow256(_)
Pow256(i) == IF i = 0 THEN 1 ELSE 256 * Pow256(i - 1)

\* ByteOrder::write_uN: the w bytes of v in the strategy's order
write_uint(s, h, w, v) ==
    [ i \in 1..w |->
        IF OrderOf(s, h) = "little"
        THEN (v \div Pow256(i - 1)) % 256
        ELSE (v \div Pow256(w - i)) % 256 ]

RECURSIVE read_le(_), read_be(_)
read_le(bytes) ==
    IF bytes = << >> THEN 0 ELSE Head(bytes) + 256 * read_le(Tail(bytes))
read_be(bytes) ==
    IF bytes = << >> THEN 0
    ELSE 256 * read_be(SubSeq(bytes, 1, Len(bytes) - 1)) + bytes[Len(bytes)]

\* ByteOrder::read_uN: the value the bytes hold in the strategy's order
read_uint(s, h, bytes) ==
    IF OrderOf(s, h) = "little" THEN read_le(bytes) ELSE read_be(bytes)

\* The integers encoded: u16 values, and u32 values below 2^31
Widths == { 2, 4 }
Sample(w, k) ==
    IF w = 2 THEN (k * SampleStep) % 65536
    ELSE (k * SampleStep) * 65536 + ((k * (SampleStep + 1)) % 65536)
Inputs == { [width |-> w, value |-> Sample(w, k)] : w \in Widths, k \in 0..MaxSamples }

---------------------------------------------------------------------------
(* State machine of the error model *)

NoOrigin == [via |-> "none", msg |-> NoMsg, io |-> NoIo]
NoDesc == [called |-> FALSE, text |-> ""]
NoPrevDesc == [kind |-> "None", text |-> ""]

ErrInit ==
    /\ err = NoError
    /\ origin = NoOrigin
    /\ constructed = NoError
    /\ rendered = ""
    /\ firstRendered = ""
    /\ renders = 0
    /\ desc = NoDesc
    /\ prevDesc = NoPrevDesc
    /\ causeRes = "NotCalled"
    /\ layers = 0

\* A new Error value k takes the slot; nothing has been called on it yet.
Fresh(k, o) ==
    /\ err = NoError
    /\ err' = k
    /\ constructed' = k
    /\ origin' = o
    /\ rendered' = ""
    /\ firstRendered' = ""
    /\ renders' = 0
    /\ desc' = NoDesc
    /\ causeRes' = "NotCalled"
    /\ layers' = 0
    /\ UNCHANGED prevDesc

\* The codec builds a variant itself at the point of detection: ErrorKind::X.into()
Construct(k) ==
    /\ Fresh(k, [NoOrigin EXCEPT !.via = "direct"])
    /\ UNCHANGED endianVars

\* An io::Error e is converted by `?`: Error::from(e)
FromIo(e) ==
    /\ Fresh(from(e), [NoOrigin EXCEPT !.via = "from_io", !.io = e])
    /\ UNCHANGED endianVars

\* <Error as serde::ser::Error>::custom(m)
SerCustom(m) ==
    /\ Fresh(ser_custom(m), [NoOrigin EXCEPT !.via = "ser", !.msg = m])
    /\ UNCHANGED endianVars

\* <Error as serde::de::Error>::custom(m)
DeCustom(m) ==
    /\ Fresh(de_custom(m), [NoOrigin EXCEPT !.via = "de", !.msg = m])
    /\ UNCHANGED endianVars

\* format!("{}", err): Display::fmt(&self)
Render ==
    /\ err # NoError
    /\ renders < MaxRenders
    /\ rendered' = Display(err)
    /\ firstRendered' = IF renders = 0 THEN Display(err) ELSE firstRendered
    /\ renders' = renders + 1
    /\ UNCHANGED <<err, origin, constructed, desc, prevDesc, causeRes, layers>>
    /\ UNCHANGED endianVars

\* err.description(): &self
Description ==
    /\ err # NoError
    /\ ~desc.called
    /\ desc' = [called |-> TRUE, text |-> description(err)]
    /\ UNCHANGED <<err, origin, constructed, rendered, firstRendered, renders,
                   prevDesc, causeRes, layers>>
    /\ UNCHANGED endianVars

\* err.cause(): &self
Cause ==
    /\ err # NoError
    /\ causeRes = "NotCalled"
    /\ causeRes' = cause(err)
    /\ UNCHANGED <<err, origin, constructed, rendered, firstRendered, renders,
                   desc, prevDesc, layers>>
    /\ UNCHANGED endianVars

\* A layer that rewraps the error it returns as a Custom error of its text
Propagate_rewrap ==
    /\ err # NoError
    /\ layers < MaxLayers
    /\ err' = [Variant("Custom") EXCEPT !.msg = "decode failed: " \o Display(err)]
    /\ layers' = layers + 1
    /\ UNCHANGED <<origin, constructed, rendered, firstRendered, renders,
                   desc, prevDesc, causeRes>>
    /\ UNCHANGED endianVars

\* A Result<T>-returning layer returns Err(err) to its caller: the Box moves.
Propagate ==
    /\ err # NoError
    /\ layers < MaxLayers
    /\ err' = err
    /\ layers' = layers + 1
    /\ UNCHANGED <<origin, constructed, rendered, firstRendered, renders,
                   desc, prevDesc, causeRes>>
    /\ UNCHANGED endianVars

\* The Error is dropped; the slot is free for the next failure.
Drop ==
    /\ err # NoError
    /\ err' = NoError
    /\ constructed' = NoError
    /\ origin' = NoOrigin
    /\ rendered' = ""
    /\ firstRendered' = ""
    /\ renders' = 0
    /\ desc' = NoDesc
    /\ prevDesc' = IF desc.called THEN [kind |-> err.kind, text |-> desc.text]
                   ELSE prevDesc
    /\ causeRes' = "NotCalled"
    /\ layers' = 0
    /\ UNCHANGED endianVars

---------------------------------------------------------------------------
(* State machine of the byte-order configuration *)

NoBytes == << >>
NoValue == -1

EndianInit ==
    /\ host \in { "little", "big" }
    /\ resolved = [m \in Markers |-> ""]
    /\ firstResolved = [m \in Markers |-> ""]
    /\ resolutions = [m \in Markers |-> 0]
    /\ input = [width |-> 2, value |-> Sample(2, 0)]
    /\ wire = [m \in Markers |-> NoBytes]
    /\ back = [m \in Markers |-> NoValue]

\* A codec instantiation parameterized by marker m names <m as BincodeByteOrder>::Endian
Resolve(m) ==
    /\ resolutions[m] < MaxResolutions
    /\ resolved' = [resolved EXCEPT ![m] = Endian(m)]
    /\ firstResolved' = IF firstResolved[m] = ""
                        THEN [firstResolved EXCEPT ![m] = Endian(m)]
                        ELSE firstResolved
    /\ resolutions' = [resolutions EXCEPT ![m] = @ + 1]
    /\ UNCHANGED <<host, input, wire, back>>
    /\ UNCHANGED errVars

\* The codec configured with m writes input: <m::Endian>::write_uN
Encode(m) ==
    /\ wire[m] = NoBytes
    /\ wire' = [wire EXCEPT ![m] = write_uint(Endian(m), host, input.width, input.value)]
    /\ UNCHANGED <<host, resolved, firstResolved, resolutions, input, back>>
    /\ UNCHANGED errVars

\* The codec configured with m reads back what it wrote: <m::Endian>::read_uN
Decode(m) ==
    /\ wire[m] # NoBytes
    /\ back[m] = NoValue
    /\ back' = [back EXCEPT ![m] = read_uint(Endian(m), host, wire[m])]
    /\ UNCHANGED <<host, resolved, firstResolved, resolutions, input, wire>>
    /\ UNCHANGED errVars

\* The next integer to encode
NextInput(i) ==
    /\ i # input
    /\ input' = i
    /\ wire' = [m \in Markers |-> NoBytes]
    /\ back' = [m \in Markers |-> NoValue]
    /\ UNCHANGED <<host, resolved, firstResolved, resolutions>>
    /\ UNCHANGED errVars

---------------------------------------------------------------------------
(* Specifications *)

Init == ErrInit /\ EndianInit

Next ==
    \/ \E k \in ErrorKinds : Construct(k)
    \/ \E e \in IoErrors : FromIo(e)
    \/ \E m \in Messages : SerCustom(m)
    \/ \E m \in Messages : DeCustom(m)
    \/ Render
    \/ Description
    \/ Cause
    \/ Propagate
    \/ Drop

Spec == Init /\ [][Next]_vars

NextEndian ==
    \/ \E m \in Markers : Resolve(m)
    \/ \E m \in Markers : Encode(m)
    \/ \E m \in Markers : Decode(m)
    \/ \E i \in Inputs : NextInput(i)

SpecEndian == Init /\ [][NextEndian]_vars

---------------------------------------------------------------------------
(* Properties *)

\* The text of a displayable message, written with TLC's own decimal conversion
MsgText(m) == IF m.type = "str" THEN m.s ELSE ToString(m.n)

\* The message template of each variant, as documented
Template(e) ==
    CASE e.kind = "Io" -> "io error: " \o IoDisplay(e.io)
      [] e.kind = "InvalidUtf8Encoding" ->
            "string is not valid utf8: " \o Utf8Display(e.utf8)
      [] e.kind = "InvalidBoolEncoding" ->
            "invalid u8 while decoding bool, expected 0 or 1, found " \o ToString(e.n)
      [] e.kind = "InvalidCharEncoding" -> "char is not valid"
      [] e.kind = "InvalidTagEncoding" ->
            "tag for enum is not valid: " \o ToString(e.n)
      [] e.kind = "SequenceMustHaveLength" -> "sequence must have length"
      [] e.kind = "SizeLimit" -> "the size limit has been reached"
      [] e.kind = "DeserializeAnyNotSupported" ->
            "Bincode does not support the serde::Deserializer::deserialize_any method"
      [] e.kind = "Custom" -> e.msg

\* C1: whenever an error has been rendered, the text is the message template of
\* its variant filled with its payload (the byte and the tag in decimal), so
\* the text is a function of variant and payload; InvalidBoolEncoding(7)
\* renders with "found 7".
C1_DisplayMatchesTemplate ==
    renders > 0 =>
        /\ err.kind \in Kinds
        /\ rendered = Template(err)
        /\ (err.kind = "InvalidBoolEncoding" /\ err.n = 7 =>
                rendered = "invalid u8 while decoding bool, expected 0 or 1, found 7")

C1_Witness ==
    /\ renders > 0
    /\ err.kind = "InvalidBoolEncoding"
    /\ err.n = 7
    /\ rendered = "invalid u8 while decoding bool, expected 0 or 1, found 7"

\* C2: an Error converted from an io::Error e is the Io variant and carries
\* exactly e; it is none of the other eight variants.
C2_FromIoYieldsIo ==
    origin.via = "from_io" =>
        /\ err.kind = "Io"
        /\ err.io = origin.io
        /\ err = [kind |-> "Io", io |-> origin.io, utf8 |-> NoUtf8, n |-> 0, msg |-> ""]

C2_Witness ==
    /\ origin.via = "from_io"
    /\ err.kind = "Io"
    /\ err.io.repr = "Custom"
    /\ err.io.error = "disk gone"

\* C3: an Error built by either custom constructor from a message M is the
\* Custom variant holding the text of M, the same value whichever constructor
\* built it, and it renders as the text of M.
C3_CustomRendersMessage ==
    origin.via \in { "ser", "de" } =>
        /\ err = [kind |-> "Custom", io |-> NoIo, utf8 |-> NoUtf8, n |-> 0,
                  msg |-> MsgText(origin.msg)]
        /\ (renders > 0 => rendered = MsgText(origin.msg))

C3_Witness ==
    /\ origin.via = "de"
    /\ origin.msg = StrMsg("sequence must have length")
    /\ renders > 0
    /\ rendered = "sequence must have length"

\* C4: cause() answers None for every error, an Io error included.
C4_CauseIsNone == causeRes # "NotCalled" => causeRes = "None"

C4_Witness == err.kind = "Io" /\ causeRes = "None"

\* C5 as stated: two errors of the same variant have the same description.
C5_DescriptionIgnoresPayload ==
    desc.called /\ prevDesc.kind = err.kind => desc.text = prevDesc.text

\* C5, amended: two errors of the same variant other than Custom have the same
\* description (an Io error has "io error"); the description of a Custom error
\* is its message.
C5_DescriptionFixedExceptCustom ==
    desc.called =>
        /\ (prevDesc.kind = err.kind /\ err.kind # "Custom" =>
                desc.text = prevDesc.text)
        /\ (err.kind = "Io" => desc.text = "io error")
        /\ (err.kind = "Custom" => desc.text = err.msg)

C5_Witness ==
    /\ desc.called
    /\ prevDesc.kind = "Io"
    /\ err.kind = "Io"
    /\ err.io.repr = "Custom"

\* C9: a live error is the ErrorKind it was constructed with, one of the nine
\* variants, after any description, cause and rendering calls and any number
\* of layers; a later rendering is the same text as the first.
C9_ErrorImmutable ==
    err # NoError =>
        /\ err.kind \in Kinds
        /\ err = constructed
        /\ (renders > 0 => rendered = firstRendered)

C9_Witness ==
    /\ err.kind = "InvalidTagEncoding"
    /\ renders >= 2
    /\ layers >= 2
    /\ desc.called
    /\ causeRes # "NotCalled"

\* C10: the description is a prefix of the rendered text for every variant but
\* SequenceMustHaveLength and DeserializeAnyNotSupported, and equal to it for
\* InvalidCharEncoding, SizeLimit and Custom; for those two variants it is not
\* a prefix.
C10_DescriptionPrefixOfDisplay ==
    desc.called /\ renders > 0 =>
        /\ (err.kind \notin { "SequenceMustHaveLength", "DeserializeAnyNotSupported" }
                => IsPrefix(desc.text, rendered))
        /\ (err.kind \in { "InvalidCharEncoding", "SizeLimit", "Custom" }
                => desc.text = rendered)
        /\ (err.kind \in { "SequenceMustHaveLength", "DeserializeAnyNotSupported" }
                => ~IsPrefix(desc.text, rendered))

C10_Witness ==
    /\ desc.called
    /\ renders > 0
    /\ err.kind = "SequenceMustHaveLength"
    /\ desc.text # rendered

Reverse(s) == [i \in 1..Len(s) |-> s[Len(s) + 1 - i]]

HostMarker == IF host = "little" THEN "LittleEndian" ELSE "BigEndian"

C7_MappingFixed ==
    /\ \A m \in Markers :
          resolved[m] # "" =>
            /\ firstResolved[m] = resolved[m]
            /\ resolved[m] =
                 (CASE m = "LittleEndian" -> "byteorder::LittleEndian"
                    [] m = "BigEndian" -> "byteorder::BigEndian"
                    [] m = "NativeEndian" -> "byteorder::NativeEndian")
    /\ (wire["NativeEndian"] # NoBytes /\ wire[HostMarker] # NoBytes =>
            wire["NativeEndian"] = wire[HostMarker])

C7_Witness ==
    /\ \A m \in Markers : resolutions[m] >= 2
    /\ wire["NativeEndian"] # NoBytes
    /\ wire[HostMarker] # NoBytes
    /\ input.value > 255

\* C8: the bytes the Little marker writes for a value are the reversal of the
\* bytes the Big marker writes for it, and each marker reads its own bytes
\* back to the value.
C8_LittleIsReversedBig ==
    /\ (wire["LittleEndian"] # NoBytes /\ wire["BigEndian"] # NoBytes =>
            /\ Len(wire["LittleEndian"]) = input.width
            /\ wire["LittleEndian"] = Reverse(wire["BigEndian"]))
    /\ \A m \in { "LittleEndian", "BigEndian" } :
          back[m] # NoValue => back[m] = input.value

C8_Witness ==
    /\ input.width = 4
    /\ wire["LittleEndian"] # NoBytes
    /\ wire["BigEndian"] # NoBytes
    /\ wire["LittleEndian"] # wire["BigEndian"]
    /\ back["LittleEndian"] = input.value
    /\ back["BigEndian"] = input.value

=============================================================================
